---------------------------- MODULE Spec2Model ----------------------------
(***************************************************************************)
(* OpenPlag PRO (src/main.py): the archive (save_to_db), the web evidence  *)
(* collector (deep_web_search, scrape_url_content) and the Streamlit       *)
(* script main(), which every widget interaction reruns from the top.      *)
(*                                                                         *)
(* Representation.                                                         *)
(*   - A text is the sequence of the lengths of its sentence-like units,   *)
(*     as re.split (line 118) cuts it; one whitespace character separates  *)
(*     two units.  The empty string is << >>.                              *)
(*   - A scraped page content is represented by its number of characters;  *)
(*     0 is the empty string.                                              *)
(*   - A similarity score is an integer number of hundredths (0.4 is 40).  *)
(*     compute_semantic_similarity is a black box: each call draws its     *)
(*     result from Scores.                                                 *)
(***************************************************************************)
EXTENDS Integers, Sequences, FiniteSets, TLC

\* ------------------------------------------------------------ constants

\* sim_score > 0.4 (line 228), in hundredths
LOCAL_THRESHOLD == 40
\* sim_score > 0.3 (line 237)
WEB_THRESHOLD == 30
\* max_score > 0.8 (line 248)
CRITICAL_BAND == 80
\* max_score > 0.5 (line 250)
MODERATE_BAND == 50
\* len(extracted_text) < 50 (line 218)
MIN_TEXT_LEN == 50
\* len(s) > 40 (line 119)
MIN_SENTENCE_LEN == 40
\* deep_web_search(text, num_queries=3) (line 111)
num_queries == 3
\* query[:200] (line 126)
MAX_QUERY_LEN == 200
\* max_results=2 (line 126)
max_results == 2
\* text[:10000] (line 106)
MAX_PAGE_LEN == 10000
\* all_matches[:5] (line 254)
TOP_K == 5

\* ------------------------------------------------------------ bounds

\* the largest archive the session starts from
MaxArchive == 3
\* the width of the modelled digest: md5 values are 0 .. HashSpace-1
HashSpace == 7

\* ------------------------------------------------------------ input sets

\* the values compute_semantic_similarity returns, in hundredths: at and
\* around each threshold and band
Scores == {30, 40, 50, 80, 90}

URLs == {"u1", "u2", "u3"}
\* a search result without the 'href' key
NoHref == "nohref"

\* the documents a user uploads (extracted text)
ShortDoc == <<45>>
EdgeDoc == <<20, 29>>
LongDoc == <<41, 70, 40, 250, 60>>
Docs == {ShortDoc, EdgeDoc, LongDoc}

NoFile == [name |-> "", text |-> << >>]
Files == {[name |-> "paper.txt", text |-> d] : d \in Docs}

Names == {"", "ann"}

\* what requests.get + BeautifulSoup give for a page: an exception, or the
\* number of characters of the visible text
PageResponses ==
    {[ok |-> FALSE, len |-> 0]} \cup {[ok |-> TRUE, len |-> n] : n \in {0, 12000}}

\* ------------------------------------------------------------ helpers

Min(a, b) == IF a < b THEN a ELSE b

RECURSIVE SumSeq(_)
SumSeq(s) == IF s = << >> THEN 0 ELSE Head(s) + SumSeq(Tail(s))

\* len(text): the units and the separators between them
TextLen(t) == IF t = << >> THEN 0 ELSE SumSeq(t) + Len(t) - 1

RECURSIVE SelectLong(_)
\* [s for s in sentences if len(s) > 40]
SelectLong(s) ==
    IF s = << >> THEN << >>
    ELSE IF Head(s) > MIN_SENTENCE_LEN THEN <<Head(s)>> \o SelectLong(Tail(s))
    ELSE SelectLong(Tail(s))

\* insert x behind every element that is at least as long: a stable
\* descending insertion, as sorted(key=len, reverse=True) orders
RECURSIVE InsertByLen(_, _)
InsertByLen(sorted, x) ==
    IF sorted = << >> THEN <<x>>
    ELSE IF Head(sorted) >= x THEN <<Head(sorted)>> \o InsertByLen(Tail(sorted), x)
    ELSE <<x>> \o sorted

RECURSIVE SortByLenDesc(_)
SortByLenDesc(s) ==
    IF s = << >> THEN << >>
    ELSE InsertByLen(SortByLenDesc(SubSeq(s, 1, Len(s) - 1)), s[Len(s)])

Take(s, n) == SubSeq(s, 1, Min(n, Len(s)))

\* lines 118-119: the query sentences of a text
LongSentences(text) == Take(SortByLenDesc(SelectLong(text)), num_queries)

\* query[:200]
Query(sentence) == Min(sentence, MAX_QUERY_LEN)

ToSet(s) == {s[i] : i \in DOMAIN s}

\* all orders a set can be listed in
Perms(S) ==
    {f \in [1 .. Cardinality(S) -> S] : \A i, j \in DOMAIN f : i # j => f[i] # f[j]}

\* ------------------------------------------------------------ the archive

\* hashlib.md5(content.encode('utf-8')).hexdigest() (line 65): a digest of
\* fixed width over an unbounded domain, so distinct contents can collide
\* (for MD5, colliding texts are known); equal contents have equal digests
md5(content) == (TextLen(content) + 3 * Len(content)) % HashSpace

\* the column declared without UNIQUE
HashNeverTaken(rows, h) == FALSE

\* the UNIQUE constraint on content_hash (line 57): the INSERT raises
\* sqlite3.IntegrityError when the digest is already in the table
HashTaken(rows, h) == \E i \in DOMAIN rows : rows[i].content_hash = h

\* the INSERT of lines 67-68; id is AUTOINCREMENT
InsertRow(rows, name, filename, content) ==
    Append(rows, [id |-> Len(rows) + 1,
                  student_name |-> name,
                  filename |-> filename,
                  content |-> content,
                  content_hash |-> md5(content)])

\* save_to_db (lines 62-74): the return value and the table afterwards
save_to_db(rows, name, filename, content) ==
    IF HashTaken(rows, md5(content))
    THEN [ret |-> FALSE, rows |-> rows]
    ELSE [ret |-> TRUE, rows |-> InsertRow(rows, name, filename, content)]

\* fetch_internal_db (lines 77-83)
fetch_internal_db(rows) ==
    [i \in DOMAIN rows |->
        [db_name |-> rows[i].student_name,
         db_file |-> rows[i].filename,
         db_content |-> rows[i].content]]

\* the submissions archived before the session starts; the second has an
\* empty text (the table accepts it: content TEXT, line 56, and so does
\* save_to_db)
SeedContent(i) == IF i = 2 THEN << >> ELSE <<53 + i>>

RECURSIVE SeedArchive(_)
SeedArchive(n) ==
    IF n = 0 THEN << >>
    ELSE save_to_db(SeedArchive(n - 1), "bob", "old.txt", SeedContent(n)).rows

InitArchives == {SeedArchive(n) : n \in 0 .. MaxArchive}

\* the inputs of save_to_db followed in SpecDb
DbNames == {"ann", "bob"}
DbContents == {<< >>, <<50>>, <<57>>, <<20, 29>>, <<60>>, <<23, 26>>}

\* ------------------------------------------------------------ scoring

\* the local test written with >=
KeepLocalAtLeast(sim_score) == sim_score >= LOCAL_THRESHOLD

\* if sim_score > 0.4 (line 228)
KeepLocal(sim_score) == sim_score > LOCAL_THRESHOLD

\* if sim_score > 0.3 (line 237)
KeepWeb(sim_score) == sim_score > WEB_THRESHOLD

\* line 229; the "Internal: " prefix of the source label is the origin
LocalMatch(row, sim_score) ==
    [origin |-> "Local", source |-> <<row.db_name, row.db_file>>, score |-> sim_score]

\* line 238
WebMatch(item, sim_score) ==
    [origin |-> "Web", source |-> <<item.source>>, score |-> sim_score]

\* insert m behind every match that scores at least as much: sorted(...,
\* key=score, reverse=True) is stable
RECURSIVE InsertByScore(_, _)
InsertByScore(sorted, m) ==
    IF sorted = << >> THEN <<m>>
    ELSE IF Head(sorted).score >= m.score
         THEN <<Head(sorted)>> \o InsertByScore(Tail(sorted), m)
         ELSE <<m>> \o sorted

\* the merged list left in the order it was built
Unsorted(ms) == ms

RECURSIVE SortByScoreDesc(_)
\* line 241
SortByScoreDesc(ms) ==
    IF ms = << >> THEN << >>
    ELSE InsertByScore(SortByScoreDesc(SubSeq(ms, 1, Len(ms) - 1)), ms[Len(ms)])

\* lines 245, 247
MaxScoreOf(sorted) == IF sorted = << >> THEN 0 ELSE sorted[1].score

\* lines 243-251: the message the run shows; "None" when neither
\* st.success, st.error nor st.warning is reached
Classify(sorted) ==
    IF sorted = << >> THEN "Clean"
    ELSE IF MaxScoreOf(sorted) > CRITICAL_BAND THEN "Critical"
    ELSE IF MaxScoreOf(sorted) > MODERATE_BAND THEN "Moderate"
    ELSE "None"

\* all_matches[:5] (line 254)
TopMatches(sorted) == Take(sorted, TOP_K)

\* the length test made against the sentence limit
TooShortBySentence(text) == TextLen(text) < MIN_SENTENCE_LEN

\* len(extracted_text) < 50 (line 218)
TooShort(text) == TextLen(text) < MIN_TEXT_LEN

\* ------------------------------------------------------------ the web

\* what ddgs.text gives for one query: an exception, or a list of at most
\* max_results results, each with an 'href' or without one
ResultLists ==
    UNION {[1 .. n -> URLs \cup {NoHref}] : n \in 0 .. max_results}
SearchOutcomes ==
    {[raised |-> TRUE, results |-> << >>]}
        \cup {[raised |-> FALSE, results |-> r] : r \in ResultLists}

\* lines 127-128: the hrefs appended before the loop ends or res['href']
\* raises KeyError
RECURSIVE HrefsRead(_)
HrefsRead(results) ==
    IF results = << >> \/ Head(results) = NoHref THEN << >>
    ELSE <<Head(results)>> \o HrefsRead(Tail(results))

\* whether the try block of lines 125-129 raises
QueryFails(out) == out.raised \/ \E i \in DOMAIN out.results : out.results[i] = NoHref

\* the list fetched as collected, set() left out
KeepDuplicates(sources) == {sources}

\* list(set(potential_sources)) (line 134): the distinct URLs, in any order
UniqueUrlLists(sources) == Perms(ToSet(sources))

\* scrape_url_content (lines 87-108): "" on any exception, else text[:10000]
scrape_url_content(resp) == IF resp.ok THEN Min(resp.len, MAX_PAGE_LEN) ELSE 0

\* ------------------------------------------------------------ state

VARIABLES
    archive,            \* the rows of table submissions (DATABASE_FILE)
    student_name,       \* the text input (line 197), kept across reruns
    uploaded_file,      \* the file uploader (line 198), kept across reruns
    trigger,            \* the widget whose interaction started this run
    pc,                 \* where the run of main() stands
    shownCheck,         \* 'Run Rigorous Check' is on the page
    shownArchive,       \* 'Archive this paper' is on the page
    db_data,            \* line 182
    extracted_text,     \* lines 204-208
    idx,                \* the index of the loop in progress
    internal_matches,   \* line 225
    web_matches,        \* line 232
    scraped_sources,    \* line 233
    all_matches,        \* line 241
    max_score,          \* lines 245, 247
    verdict,            \* the message of lines 219, 244, 249, 251
    shown,              \* the matches listed by lines 254-255
    archiveMsg,         \* the message of lines 260, 262
    long_sentences,     \* line 119
    potential_sources,  \* line 121
    unique_urls,        \* line 134
    scraped_data,       \* line 135
    scored,             \* history: the evidence passed to compute_semantic_similarity
    webLog,             \* history: the ddgs.text calls and time.sleep pauses, in order
    contrib,            \* history: per query, whether it failed and the URLs it added
    fetched,            \* history: the URLs scrape_url_content was called with
    raw_count,          \* history: len(potential_sources) when line 134 ran
    lastSave            \* history: the last save_to_db call

vars ==
    <<archive, student_name, uploaded_file, trigger, pc, shownCheck, shownArchive,
      db_data, extracted_text, idx, internal_matches, web_matches, scraped_sources,
      all_matches, max_score, verdict, shown, archiveMsg, long_sentences,
      potential_sources, unique_urls, scraped_data, scored, webLog, contrib,
      fetched, raw_count, lastSave>>

session == <<student_name, uploaded_file>>
page == <<shownCheck, shownArchive, verdict, shown, archiveMsg>>
analysis ==
    <<db_data, extracted_text, idx, internal_matches, web_matches, scraped_sources,
      all_matches, max_score>>
web == <<long_sentences, potential_sources, unique_urls, scraped_data>>
history == <<scored, webLog, contrib, fetched, raw_count>>

NoSave ==
    [called |-> FALSE, name |-> "", filename |-> "", content |-> << >>,
     ret |-> FALSE, before |-> << >>]

\* the locals of a run that has not started, and an empty page
FreshRun ==
    /\ shownCheck = FALSE /\ shownArchive = FALSE
    /\ db_data = << >> /\ extracted_text = << >> /\ idx = 0
    /\ internal_matches = << >> /\ web_matches = << >> /\ scraped_sources = << >>
    /\ all_matches = << >> /\ max_score = 0
    /\ verdict = "none" /\ shown = << >> /\ archiveMsg = "none"
    /\ long_sentences = << >> /\ potential_sources = << >>
    /\ unique_urls = << >> /\ scraped_data = << >>
    /\ scored = {} /\ webLog = << >> /\ contrib = << >> /\ fetched = << >>
    /\ raw_count = 0

\* the first load of the page: no name, no file, the archive as it was left
Init ==
    /\ archive \in InitArchives
    /\ student_name = "" /\ uploaded_file = NoFile
    /\ trigger = "none" /\ pc = "sidebar"
    /\ lastSave = NoSave
    /\ FreshRun

\* a rerun starts: the script runs from the top with an empty page
Rerun(by) ==
    /\ trigger' = by
    /\ pc' = "sidebar"
    /\ shownCheck' = FALSE /\ shownArchive' = FALSE
    /\ db_data' = << >> /\ extracted_text' = << >> /\ idx' = 0
    /\ internal_matches' = << >> /\ web_matches' = << >> /\ scraped_sources' = << >>
    /\ all_matches' = << >> /\ max_score' = 0
    /\ verdict' = "none" /\ shown' = << >> /\ archiveMsg' = "none"
    /\ long_sentences' = << >> /\ potential_sources' = << >>
    /\ unique_urls' = << >> /\ scraped_data' = << >>
    /\ scored' = {} /\ webLog' = << >> /\ contrib' = << >> /\ fetched' = << >>
    /\ raw_count' = 0

\* ------------------------------------------------------------ the user

\* typing a name reruns the script
SetName ==
    /\ pc = "idle"
    /\ \E n \in Names : n # student_name /\ student_name' = n
    /\ Rerun("none")
    /\ UNCHANGED <<archive, uploaded_file, lastSave>>

\* choosing or removing a file reruns the script
Upload ==
    /\ pc = "idle"
    /\ \E f \in Files \cup {NoFile} : f # uploaded_file /\ uploaded_file' = f
    /\ Rerun("none")
    /\ UNCHANGED <<archive, student_name, lastSave>>

\* a button returns True only in the rerun its click starts
ClickClear ==
    /\ pc = "idle"
    /\ Rerun("clear")
    /\ UNCHANGED <<archive, session, lastSave>>

ClickCheck ==
    /\ pc = "idle" /\ shownCheck
    /\ Rerun("check")
    /\ UNCHANGED <<archive, session, lastSave>>

ClickArchive ==
    /\ pc = "idle" /\ shownArchive
    /\ Rerun("archive")
    /\ UNCHANGED <<archive, session, lastSave>>

\* ------------------------------------------------------------ main()

\* lines 178-190, 'Refresh / Clear DB' not clicked, or os.remove raising
Sidebar ==
    /\ pc = "sidebar"
    /\ db_data' = fetch_internal_db(archive)
    /\ pc' = "input"
    /\ UNCHANGED <<archive, session, trigger, page, extracted_text, idx,
                   internal_matches, web_matches, scraped_sources, all_matches,
                   max_score, web, history, lastSave>>

\* lines 184-188: the database file is removed and st.rerun() restarts the
\* script
ClearDb ==
    /\ pc = "sidebar" /\ trigger = "clear"
    /\ archive' = << >>
    /\ Rerun("none")
    /\ UNCHANGED <<session, lastSave>>

\* line 200 false: no file or no name
NoInput ==
    /\ pc = "input"
    /\ ~(uploaded_file # NoFile /\ student_name # "")
    /\ pc' = "idle"
    /\ UNCHANGED <<archive, session, trigger, page, analysis, web, history, lastSave>>

\* lines 200-217, check_btn False: the preview and the button are shown
Preview ==
    /\ pc = "input"
    /\ uploaded_file # NoFile /\ student_name # ""
    /\ trigger # "check"
    /\ extracted_text' = uploaded_file.text
    /\ shownCheck' = TRUE
    /\ pc' = "idle"
    /\ UNCHANGED <<archive, session, trigger, shownArchive, verdict, shown,
                   archiveMsg, db_data, idx, internal_matches, web_matches,
                   scraped_sources, all_matches, max_score, web, history, lastSave>>

\* lines 217-219
RejectShort ==
    /\ pc = "input"
    /\ uploaded_file # NoFile /\ student_name # ""
    /\ trigger = "check"
    /\ TooShort(uploaded_file.text)
    /\ extracted_text' = uploaded_file.text
    /\ shownCheck' = TRUE
    /\ verdict' = "TooShort"
    /\ pc' = "idle"
    /\ UNCHANGED <<archive, session, trigger, shownArchive, shown, archiveMsg,
                   db_data, idx, internal_matches, web_matches, scraped_sources,
                   all_matches, max_score, web, history, lastSave>>

\* lines 217-225
BeginAnalysis ==
    /\ pc = "input"
    /\ uploaded_file # NoFile /\ student_name # ""
    /\ trigger = "check"
    /\ ~TooShort(uploaded_file.text)
    /\ extracted_text' = uploaded_file.text
    /\ shownCheck' = TRUE
    /\ internal_matches' = << >>
    /\ idx' = 1
    /\ pc' = "internal"
    /\ UNCHANGED <<archive, session, trigger, shownArchive, verdict, shown,
                   archiveMsg, db_data, web_matches, scraped_sources, all_matches,
                   max_score, web, history, lastSave>>

\* lines 226-229, one archive row
InternalCheck ==
    /\ pc = "internal" /\ idx <= Len(db_data)
    /\ \E sim_score \in Scores :
          internal_matches' =
              IF KeepLocal(sim_score)
              THEN Append(internal_matches, LocalMatch(db_data[idx], sim_score))
              ELSE internal_matches
    /\ scored' = scored \cup {[origin |-> "Local", len |-> TextLen(db_data[idx].db_content)]}
    /\ idx' = idx + 1
    /\ UNCHANGED <<archive, session, trigger, pc, page, db_data, extracted_text,
                   web_matches, scraped_sources, all_matches, max_score, web,
                   webLog, contrib, fetched, raw_count, lastSave>>

\* lines 232-233 and 118-121: deep_web_search is entered
WebStart ==
    /\ pc = "internal" /\ idx > Len(db_data)
    /\ web_matches' = << >>
    /\ long_sentences' = LongSentences(extracted_text)
    /\ potential_sources' = << >>
    /\ idx' = 1
    /\ pc' = "web_query"
    /\ UNCHANGED <<archive, session, trigger, page, db_data, extracted_text,
                   internal_matches, scraped_sources, all_matches, max_score,
                   unique_urls, scraped_data, history, lastSave>>

\* lines 124-131, one query
WebQuery ==
    /\ pc = "web_query" /\ idx <= Len(long_sentences)
    /\ \E out \in SearchOutcomes :
          LET read == IF out.raised THEN << >> ELSE HrefsRead(out.results) IN
          /\ potential_sources' = potential_sources \o read
          /\ contrib' = Append(contrib, [failed |-> QueryFails(out), added |-> Len(read)])
          /\ webLog' = IF QueryFails(out)
                       THEN Append(webLog, "search")
                       ELSE webLog \o <<"search", "sleep">>
    /\ idx' = idx + 1
    /\ UNCHANGED <<archive, session, trigger, pc, page, db_data, extracted_text,
                   internal_matches, web_matches, scraped_sources, all_matches,
                   max_score, long_sentences, unique_urls, scraped_data, scored,
                   fetched, raw_count, lastSave>>

\* lines 134-135; long_sentences and potential_sources are not read again
\* and are dropped here, with the history of the queries
WebDedupe ==
    /\ pc = "web_query" /\ idx > Len(long_sentences)
    /\ unique_urls' \in UniqueUrlLists(potential_sources)
    /\ raw_count' = Len(potential_sources)
    /\ scraped_data' = << >>
    /\ long_sentences' = << >> /\ potential_sources' = << >>
    /\ webLog' = << >> /\ contrib' = << >>
    /\ idx' = 1
    /\ pc' = "web_fetch"
    /\ UNCHANGED <<archive, session, trigger, page, db_data, extracted_text,
                   internal_matches, web_matches, scraped_sources, all_matches,
                   max_score, scored, fetched, lastSave>>

\* lines 142-146, one URL
WebFetch ==
    /\ pc = "web_fetch" /\ idx <= Len(unique_urls)
    /\ \E resp \in PageResponses :
          LET content == scrape_url_content(resp) IN
          scraped_data' =
              IF content # 0
              THEN Append(scraped_data,
                          [source |-> unique_urls[idx], content |-> content, type |-> "Web"])
              ELSE scraped_data
    /\ fetched' = Append(fetched, unique_urls[idx])
    /\ idx' = idx + 1
    /\ UNCHANGED <<archive, session, trigger, pc, page, db_data, extracted_text,
                   internal_matches, web_matches, scraped_sources, all_matches,
                   max_score, long_sentences, potential_sources, unique_urls,
                   scored, webLog, contrib, raw_count, lastSave>>

\* line 150, back in main at line 233; the locals of deep_web_search end
WebReturn ==
    /\ pc = "web_fetch" /\ idx > Len(unique_urls)
    /\ scraped_sources' = scraped_data
    /\ unique_urls' = << >> /\ scraped_data' = << >>
    /\ fetched' = << >> /\ raw_count' = 0
    /\ idx' = 1
    /\ pc' = "external"
    /\ UNCHANGED <<archive, session, trigger, page, db_data, extracted_text,
                   internal_matches, web_matches, all_matches, max_score,
                   long_sentences, potential_sources, scored, webLog, contrib,
                   lastSave>>

\* lines 235-238, one scraped source
ExternalCheck ==
    /\ pc = "external" /\ idx <= Len(scraped_sources)
    /\ \E sim_score \in Scores :
          web_matches' =
              IF KeepWeb(sim_score)
              THEN Append(web_matches, WebMatch(scraped_sources[idx], sim_score))
              ELSE web_matches
    /\ scored' = scored \cup {[origin |-> "Web", len |-> scraped_sources[idx].content]}
    /\ idx' = idx + 1
    /\ UNCHANGED <<archive, session, trigger, pc, page, db_data, extracted_text,
                   internal_matches, scraped_sources, all_matches, max_score, web,
                   webLog, contrib, fetched, raw_count, lastSave>>

\* lines 241-255
Results ==
    /\ pc = "external" /\ idx > Len(scraped_sources)
    /\ all_matches' = SortByScoreDesc(internal_matches \o web_matches)
    /\ max_score' = MaxScoreOf(all_matches')
    /\ verdict' = Classify(all_matches')
    /\ shown' = TopMatches(all_matches')
    /\ pc' = "save_option"
    /\ UNCHANGED <<archive, session, trigger, shownCheck, shownArchive, archiveMsg,
                   db_data, extracted_text, idx, internal_matches, web_matches,
                   scraped_sources, web, history, lastSave>>

\* lines 258-262: the button is drawn; its body runs when st.button returns
\* True, that is in the rerun its click started
SaveOption ==
    /\ pc = "save_option"
    /\ shownArchive' = TRUE
    /\ IF trigger = "archive"
       THEN LET r == save_to_db(archive, student_name, uploaded_file.name, extracted_text) IN
            /\ archive' = r.rows
            /\ archiveMsg' = IF r.ret THEN "Archived" ELSE "Exists"
            /\ lastSave' = [called |-> TRUE, name |-> student_name,
                            filename |-> uploaded_file.name, content |-> extracted_text,
                            ret |-> r.ret, before |-> archive]
       ELSE UNCHANGED <<archive, archiveMsg, lastSave>>
    /\ pc' = "idle"
    /\ UNCHANGED <<session, trigger, shownCheck, verdict, shown, analysis, web, history>>

Next ==
    \/ SetName \/ Upload \/ ClickClear \/ ClickCheck \/ ClickArchive
    \/ Sidebar \/ ClearDb \/ NoInput \/ Preview \/ RejectShort \/ BeginAnalysis
    \/ InternalCheck \/ WebStart \/ WebQuery \/ WebDedupe \/ WebFetch \/ WebReturn
    \/ ExternalCheck \/ Results \/ SaveOption

Spec == Init /\ [][Next]_vars

\* ------------------------------------------------------------ the archive alone

\* the table is created empty (init_db, lines 49-59)
InitDb ==
    /\ archive = << >>
    /\ student_name = "" /\ uploaded_file = NoFile
    /\ trigger = "none" /\ pc = "db"
    /\ lastSave = NoSave
    /\ FreshRun

\* one call of save_to_db (lines 62-74)
SaveCall ==
    /\ pc = "db"
    /\ \E name \in DbNames, content \in DbContents :
          LET r == save_to_db(archive, name, "paper.txt", content) IN
          /\ archive' = r.rows
          /\ lastSave' = [called |-> TRUE, name |-> name, filename |-> "paper.txt",
                          content |-> content, ret |-> r.ret, before |-> archive]
    /\ UNCHANGED <<session, trigger, pc, page, analysis, web, history>>

NextDb == SaveCall

SpecDb == InitDb /\ [][NextDb]_vars

\* ------------------------------------------------------------ properties

Count(seq, x) == Cardinality({i \in DOMAIN seq : seq[i] = x})

\* the matches kept by the two threshold tests, in the order they were kept
kept == internal_matches \o web_matches

AboveThreshold(m) ==
    /\ m.origin = "Local" => m.score > 40
    /\ m.origin = "Web" => m.score > 30

\* C1: every match of the kept lists, of the merged list and of the listed
\* top matches scores strictly above the threshold of its origin: above
\* 0.4 for a local archive entry, above 0.3 for a web item.
C1_AboveThreshold ==
    \A m \in ToSet(kept) \cup ToSet(all_matches) \cup ToSet(shown) : AboveThreshold(m)

\* a finished analysis that dropped an archive entry, kept another, and kept
\* a web item scoring 0.4, which a local entry would not pass with
C1_Witness ==
    /\ pc = "save_option"
    /\ \E m \in ToSet(all_matches) : m.origin = "Local"
    /\ \E m \in ToSet(all_matches) : m.origin = "Web" /\ m.score = 40
    /\ Len(internal_matches) < Len(db_data)
    /\ Len(web_matches) < Len(scraped_sources)

\* the three bands of the severity classification
Band(score) ==
    IF score > 80 THEN "Critical" ELSE IF score > 50 THEN "Moderate" ELSE "Clean"

\* C2: a completed analysis run reports the classification of its maxScore:
\* Critical above 0.8, Moderate above 0.5 and up to 0.8, Clean up to 0.5,
\* also when matches are listed.
C2_SeverityTotal == pc = "save_option" => verdict = Band(max_score)

\* C3: in a run of deep_web_search no URL is fetched twice, and the unique
\* URLs are at most as many as the raw results.
C3_Dedup ==
    /\ \A i, j \in DOMAIN fetched : i # j => fetched[i] # fetched[j]
    /\ pc = "web_fetch" => Len(unique_urls) <= raw_count
    /\ pc = "web_query" => fetched = << >>

\* six raw results, all of them one URL, which was fetched once
C3_Witness ==
    /\ pc = "web_fetch" /\ idx > Len(unique_urls)
    /\ raw_count = 6 /\ Len(unique_urls) = 1
    /\ fetched = unique_urls

Contents(rows) == {rows[i].content : i \in DOMAIN rows}
Hashes(rows) == {rows[i].content_hash : i \in DOMAIN rows}

UniqueFingerprints ==
    \A i, j \in DOMAIN archive : i # j => archive[i].content_hash # archive[j].content_hash

\* C4 as stated: the fingerprints of the archive are distinct; a call with
\* archived content returns False and changes nothing; a call with new
\* content returns True and adds one entry.
C4_ByContent ==
    /\ UniqueFingerprints
    /\ lastSave.called =>
          IF lastSave.content \in Contents(lastSave.before)
          THEN ~lastSave.ret /\ archive = lastSave.before
          ELSE /\ lastSave.ret
               /\ Len(archive) = Len(lastSave.before) + 1
               /\ SubSeq(archive, 1, Len(lastSave.before)) = lastSave.before

\* C4 amended: the fingerprints of the archive are distinct; a call whose
\* content has an archived fingerprint (so any call with archived content)
\* returns False and changes nothing; a call whose fingerprint is new
\* returns True and adds one entry, holding the name, filename and content.
C4_ByFingerprint ==
    /\ UniqueFingerprints
    /\ \A i \in DOMAIN archive : archive[i].content_hash = md5(archive[i].content)
    /\ lastSave.called =>
          /\ lastSave.content \in Contents(lastSave.before) => ~lastSave.ret
          /\ IF md5(lastSave.content) \in Hashes(lastSave.before)
             THEN ~lastSave.ret /\ archive = lastSave.before
             ELSE /\ lastSave.ret
                  /\ Len(archive) = Len(lastSave.before) + 1
                  /\ SubSeq(archive, 1, Len(lastSave.before)) = lastSave.before
                  /\ archive[Len(archive)].student_name = lastSave.name
                  /\ archive[Len(archive)].filename = lastSave.filename
                  /\ archive[Len(archive)].content = lastSave.content

\* a call with archived content, under another name, refused by an archive
\* of two entries
C4_Witness ==
    /\ lastSave.called /\ ~lastSave.ret
    /\ Len(archive) >= 2
    /\ \E i \in DOMAIN archive :
          archive[i].content = lastSave.content /\ archive[i].student_name # lastSave.name

\* C5: in a run started by the check button on a text of fewer than 50
\* characters the analysis is never entered: nothing is scored, no search
\* is issued, no page is fetched, and the run ends with the 'too short'
\* error.
C5_ShortRejected ==
    (trigger = "check" /\ TextLen(uploaded_file.text) < 50) =>
        /\ pc \in {"sidebar", "input", "idle"}
        /\ scored = {} /\ webLog = << >> /\ fetched = << >>
        /\ pc = "idle" => verdict = "TooShort"

\* a 45-character text, which holds a sentence long enough to be a query,
\* rejected with entries in the archive
C5_Witness ==
    /\ pc = "idle" /\ trigger = "check" /\ verdict = "TooShort"
    /\ LongSentences(extracted_text) # << >>
    /\ db_data # << >>

\* C6: a failed query adds no URL and a failed fetch adds no evidence item;
\* every query is issued and every unique URL is fetched, whatever fails.
C6_FailuresLocal ==
    /\ \A i \in DOMAIN contrib : contrib[i].failed => contrib[i].added = 0
    /\ \A i \in DOMAIN scraped_data : scraped_data[i].content > 0
    /\ (pc = "web_query" /\ idx > Len(long_sentences)) =>
          Len(contrib) = Len(long_sentences)
    /\ (pc = "web_fetch" /\ idx > Len(unique_urls)) => fetched = unique_urls

C8_TopFive ==
    pc = "save_option" =>
        /\ Len(shown) = Min(5, Len(kept))
        /\ \A m \in ToSet(shown) : Count(shown, m) <= Count(kept, m)
        /\ \A i \in 1 .. Len(shown) - 1 : shown[i].score >= shown[i + 1].score
        /\ \A m \in ToSet(kept) :
              Count(shown, m) < Count(kept, m) => m.score <= shown[Len(shown)].score
        /\ \A m \in ToSet(kept) : m.score <= max_score
        /\ IF kept = << >> THEN max_score = 0 ELSE max_score = shown[1].score

\* six kept matches, local and web, kept in an order that is not the score
\* order, the sixth scoring less than the fifth and left out
C8_Witness ==
    /\ pc = "save_option"
    /\ Len(kept) = 6 /\ Len(shown) = 5
    /\ internal_matches # << >> /\ web_matches # << >>
    /\ kept[1].score < kept[6].score
    /\ all_matches[6].score < all_matches[5].score

\* C9: a search-provider call that is not the first of the run comes
\* directly after a pause.
C9_PauseBetweenCalls ==
    \A i \in 2 .. Len(webLog) : webLog[i] = "search" => webLog[i - 1] = "sleep"

\* C10: the run started by a click on 'Archive this paper' calls save_to_db
\* and reports 'Archived' or 'Already exists'.
C10_ArchiveClickSaves ==
    (pc = "idle" /\ trigger = "archive") =>
        /\ lastSave.called
        /\ archiveMsg \in {"Archived", "Exists"}

=============================================================================
